---------------------------- MODULE Spec2Model ----------------------------
(***************************************************************************)
(* The CrewAI attribute normalisation of the traces-observer-service        *)
(* (package opensearch, crewai_process.go) and the CORS middleware          *)
(* (package middleware).                                                    *)
(*                                                                          *)
(* A Go string is a sequence of one-character strings, so that              *)
(* strings.Fields, strings.SplitN, strings.TrimSpace, strings.ToLower,      *)
(* strings.HasPrefix and fmt.Sscanf are computed character by character.    *)
(***************************************************************************)
EXTENDS Integers, Sequences, FiniteSets, TLC

VARIABLES
    tokenUsageStr,  \* parseCrewAITokenUsage: the argument
    parsePc,        \* "call" before the call, "done" after it
    usageResult,    \* parseCrewAITokenUsage: the returned *LLMTokenUsage
    attrs,          \* the span's attribute map, map[string]interface{}
    detPc,          \* IsCrewAISpan: "call", "range" (in the loop over the keys), "done"
    remaining,      \* IsCrewAISpan: the keys the range loop has not yet produced
    verdict,        \* IsCrewAISpan: the returned bool
    rootSpan,       \* ExtractCrewAIRootSpanInputOutput: the argument, a *Span
    ioPc,           \* "call", then "generic" or "root": the extractor that was called
    ioInput,        \* the returned input
    ioOutput,       \* the returned output
    ampAttrs,       \* PopulateCrewAIAgentAttributes: the record *ampAttrs points to
    calls,          \* how many times the record was populated
    allowedOrigin,  \* CORS: the comma-separated list the middleware was built with
    reqMethod,      \* CORS: r.Method
    reqOrigin,      \* CORS: r.Header.Get("Origin")
    corsPc,         \* CORS: the handler's position
    respHeader,     \* CORS: w.Header()
    respStatus,     \* CORS: the status written to w, 0 while none is
    matchedOrigin,  \* CORS: the local matchedOrigin
    nextCalls       \* CORS: how many times next.ServeHTTP was called

parseVars == <<tokenUsageStr, parsePc, usageResult>>

detectVars == <<detPc, remaining, verdict>>

ioVars == <<rootSpan, ioPc, ioInput, ioOutput>>

populateVars == <<ampAttrs, calls>>

corsVars ==
    <<allowedOrigin, reqMethod, reqOrigin, corsPc, respHeader, respStatus, matchedOrigin,
      nextCalls>>

vars == <<parseVars, attrs, detectVars, ioVars, populateVars, corsVars>>

(* Each specification below checks one function; the variables of the others *)
(* keep the values given here.                                                *)

ParseOff == tokenUsageStr = <<>> /\ parsePc = "off" /\ usageResult = <<>>

AttrsOff == attrs = <<>>

DetectOff == detPc = "off" /\ remaining = {} /\ verdict = FALSE

IoOff == rootSpan = <<>> /\ ioPc = "off" /\ ioInput = <<>> /\ ioOutput = <<>>

PopulateOff == ampAttrs = <<>> /\ calls = 0

CorsOff ==
    /\ allowedOrigin = <<>>
    /\ reqMethod = ""
    /\ reqOrigin = <<>>
    /\ corsPc = "off"
    /\ respHeader = <<>>
    /\ respStatus = 0
    /\ matchedOrigin = <<>>
    /\ nextCalls = 0

-----------------------------------------------------------------------------
(* Package strings and fmt, on ASCII text.                                  *)

\* unicode.IsSpace on ASCII: the white space strings.Fields and TrimSpace cut.
WhiteSpace == {" ", "\t", "\n", "\r", "\f"}

IsSpace(c) == c \in WhiteSpace

DecimalDigits == <<"0", "1", "2", "3", "4", "5", "6", "7", "8", "9">>

IsDigit(c) == \E d \in 1..10 : DecimalDigits[d] = c

DigitValue(c) == (CHOOSE d \in 1..10 : DecimalDigits[d] = c) - 1

\* strings.Fields: the maximal runs of non-space characters, in order.
Fields(s) ==
    LET starts == {i \in 1..Len(s) : ~IsSpace(s[i]) /\ (i = 1 \/ IsSpace(s[i - 1]))}
        EndOf(i) ==
            CHOOSE j \in i..Len(s) :
                /\ \A k \in i..j : ~IsSpace(s[k])
                /\ (j = Len(s) \/ IsSpace(s[j + 1]))
        Nth(k) == CHOOSE i \in starts : Cardinality({x \in starts : x < i}) = k - 1
    IN  [k \in 1..Cardinality(starts) |-> SubSeq(s, Nth(k), EndOf(Nth(k)))]

\* strings.SplitN(s, sep, 2) for a one-character sep: cut at the first sep.
SplitN2(s, sep) ==
    IF \E i \in 1..Len(s) : s[i] = sep
    THEN LET i == CHOOSE j \in 1..Len(s) : s[j] = sep /\ \A k \in 1..(j - 1) : s[k] # sep
         IN  <<SubSeq(s, 1, i - 1), SubSeq(s, i + 1, Len(s))>>
    ELSE <<s>>

RECURSIVE DigitRun(_, _)
\* The length of the run of decimal digits of s that starts at position i.
DigitRun(s, i) ==
    IF i <= Len(s) /\ IsDigit(s[i]) THEN 1 + DigitRun(s, i + 1) ELSE 0

RECURSIVE DecimalValue(_)
DecimalValue(ds) ==
    IF ds = <<>> THEN 0
    ELSE 10 * DecimalValue(SubSeq(ds, 1, Len(ds) - 1)) + DigitValue(ds[Len(ds)])

\* fmt.Sscanf(value, "%d", &numValue) on text without white space: an optional
\* sign, then the longest run of decimal digits (at least one); whatever follows
\* the digits is left unread and is no error.  [ok, n]: err == nil and numValue.
SscanfD(value) ==
    LET signed == Len(value) >= 1 /\ value[1] \in {"+", "-"}
        from   == IF signed THEN 2 ELSE 1
        n      == DigitRun(value, from)
        mag    == DecimalValue(SubSeq(value, from, from + n - 1))
    IN  IF n = 0
        THEN [ok |-> FALSE, n |-> 0]
        ELSE [ok |-> TRUE, n |-> IF signed /\ value[1] = "-" THEN 0 - mag ELSE mag]

RECURSIVE TrimLeft(_)
TrimLeft(s) == IF s # <<>> /\ IsSpace(s[1]) THEN TrimLeft(Tail(s)) ELSE s

RECURSIVE TrimRight(_)
TrimRight(s) ==
    IF s # <<>> /\ IsSpace(s[Len(s)]) THEN TrimRight(SubSeq(s, 1, Len(s) - 1)) ELSE s

\* strings.TrimSpace
TrimSpace(s) == TrimRight(TrimLeft(s))

-----------------------------------------------------------------------------
(* parseCrewAITokenUsage                                                    *)

KeyTotalTokens == <<"t", "o", "t", "a", "l", "_", "t", "o", "k", "e", "n", "s">>
KeyPromptTokens == <<"p", "r", "o", "m", "p", "t", "_", "t", "o", "k", "e", "n", "s">>
KeyCompletionTokens ==
    <<"c", "o", "m", "p", "l", "e", "t", "i", "o", "n", "_", "t", "o", "k", "e", "n", "s">>
KeyCachedPromptTokens ==
    <<"c", "a", "c", "h", "e", "d", "_", "p", "r", "o", "m", "p", "t", "_", "t", "o", "k", "e",
      "n", "s">>

\* A nil *LLMTokenUsage, and the zero struct &LLMTokenUsage{}.
NilUsage ==
    [isNil |-> TRUE, TotalTokens |-> 0, InputTokens |-> 0, OutputTokens |-> 0,
     CacheReadInputTokens |-> 0]

ZeroUsage == [NilUsage EXCEPT !.isNil = FALSE]

\* The switch on key: the field the value goes to.
AssignField(usage, key, numValue) ==
    CASE key = KeyTotalTokens        -> [usage EXCEPT !.TotalTokens = numValue]
      [] key = KeyPromptTokens       -> [usage EXCEPT !.InputTokens = numValue]
      [] key = KeyCompletionTokens   -> [usage EXCEPT !.OutputTokens = numValue]
      [] key = KeyCachedPromptTokens -> [usage EXCEPT !.CacheReadInputTokens = numValue]
      [] OTHER                       -> usage

\* One iteration of the loop over the pairs.
ParsePair(usage, pair) ==
    LET parts == SplitN2(pair, "=")
    IN  IF Len(parts) # 2
        THEN usage
        ELSE LET scanned == SscanfD(parts[2])
             IN  IF ~scanned.ok THEN usage ELSE AssignField(usage, parts[1], scanned.n)

RECURSIVE ParsePairs(_, _)
ParsePairs(usage, pairs) ==
    IF pairs = <<>> THEN usage ELSE ParsePairs(ParsePair(usage, Head(pairs)), Tail(pairs))

\* HasValidData with the cache-read count taken for usage data too.
HasValidDataAnyField(usage) ==
    \/ usage.TotalTokens > 0
    \/ usage.InputTokens > 0
    \/ usage.OutputTokens > 0
    \/ usage.CacheReadInputTokens > 0

\* "Only return if we have valid data"
HasValidData(usage) ==
    usage.TotalTokens > 0 \/ usage.InputTokens > 0 \/ usage.OutputTokens > 0

parseCrewAITokenUsage(s) ==
    IF s = <<>>
    THEN NilUsage
    ELSE LET usage == ParsePairs(ZeroUsage, Fields(s))
         IN  IF HasValidData(usage) THEN usage ELSE NilUsage

(* The strings parseCrewAITokenUsage is called on.                          *)

\* How many key=value tokens an enumerated usage string holds at most.
MaxPairs == 2

KeySuccessfulRequests ==
    <<"s", "u", "c", "c", "e", "s", "s", "f", "u", "l", "_", "r", "e", "q", "u", "e", "s", "t",
      "s">>
ExampleUsageStr ==
    <<"t", "o", "t", "a", "l", "_", "t", "o", "k", "e", "n", "s", "=", "5", "7", "0", "6", "2",
      " ", "p", "r", "o", "m", "p", "t", "_", "t", "o", "k", "e", "n", "s", "=", "4", "6", "3",
      "7", "6", " ", "c", "a", "c", "h", "e", "d", "_", "p", "r", "o", "m", "p", "t", "_", "t",
      "o", "k", "e", "n", "s", "=", "0", " ", "c", "o", "m", "p", "l", "e", "t", "i", "o", "n",
      "_", "t", "o", "k", "e", "n", "s", "=", "1", "0", "6", "8", "6", " ", "s", "u", "c", "c",
      "e", "s", "s", "f", "u", "l", "_", "r", "e", "q", "u", "e", "s", "t", "s", "=", "1", "0">>
FooBar == <<"f", "o", "o", "=", "b", "a", "r">>
Foo == <<"f", "o", "o">>
TotalUnderscore ==
    <<"t", "o", "t", "a", "l", "_", "t", "o", "k", "e", "n", "s", "=", "1", "_", "0", "0", "0">>
TotalEmpty == <<"t", "o", "t", "a", "l", "_", "t", "o", "k", "e", "n", "s", "=">>
TotalTwice == <<"t", "o", "t", "a", "l", "_", "t", "o", "k", "e", "n", "s", "=", "5", "=", "6">>

UsageKeys ==
    {KeyTotalTokens, KeyPromptTokens, KeyCompletionTokens, KeyCachedPromptTokens,
     KeySuccessfulRequests}

UsageValues ==
    {<<"5">>, <<"0">>, <<"-", "3">>, <<"1", "2", "a", "b", "c">>}

UsageTokens ==
    {k \o <<"=">> \o v : k \in UsageKeys, v \in UsageValues}
        \cup {FooBar, Foo, TotalEmpty, TotalTwice, TotalUnderscore}

RECURSIVE Join(_, _)
Join(ts, sep) ==
    IF ts = <<>> THEN <<>>
    ELSE IF Len(ts) = 1 THEN ts[1]
    ELSE ts[1] \o sep \o Join(Tail(ts), sep)

TokenSeqs == UNION {[1..n -> UsageTokens] : n \in 0..MaxPairs}

UsageStrings ==
    {<<>>, ExampleUsageStr}
        \cup {Join(ts, <<" ">>) : ts \in TokenSeqs}
        \cup {<<"\t">> \o Join(ts, <<"\n", " ">>) \o <<" ">> : ts \in TokenSeqs}

\* A call of parseCrewAITokenUsage(tokenUsageStr).
ParseTokenUsage ==
    /\ parsePc = "call"
    /\ usageResult' = parseCrewAITokenUsage(tokenUsageStr)
    /\ parsePc' = "done"
    /\ UNCHANGED <<tokenUsageStr, attrs, detectVars, ioVars, populateVars, corsVars>>

ParseInit ==
    /\ tokenUsageStr \in UsageStrings
    /\ parsePc = "call"
    /\ usageResult = NilUsage
    /\ AttrsOff /\ DetectOff /\ IoOff /\ PopulateOff /\ CorsOff

ParseNext == ParseTokenUsage

SpecParse == ParseInit /\ [][ParseNext]_vars

-----------------------------------------------------------------------------
(* Claims about parseCrewAITokenUsage, under SpecParse.                     *)

CachedOnlyStr == KeyCachedPromptTokens \o <<"=", "5">>

\* C1: parseCrewAITokenUsage returns nil or a record with TotalTokens,
\* InputTokens or OutputTokens strictly positive, never an all-zero record; ""
\* and "foo=bar" give nil, and so does a string whose only non-zero recognized
\* field is cached_prompt_tokens.
C1_NilOrPositive ==
    parsePc = "done" =>
        /\ \/ usageResult.isNil
           \/ usageResult.TotalTokens > 0
           \/ usageResult.InputTokens > 0
           \/ usageResult.OutputTokens > 0
        /\ tokenUsageStr \in {<<>>, FooBar, CachedOnlyStr} => usageResult.isNil

\* The discarded case: a string whose only non-zero field is the cache count.
C1_Witness ==
    /\ parsePc = "done"
    /\ tokenUsageStr = CachedOnlyStr
    /\ usageResult.isNil

RecognizedKeys ==
    {KeyTotalTokens, KeyPromptTokens, KeyCompletionTokens, KeyCachedPromptTokens}

\* The whole text is a base-10 integer: an optional sign, then digits only.
IsBase10Integer(v) ==
    LET from == IF Len(v) >= 1 /\ v[1] \in {"+", "-"} THEN 2 ELSE 1
    IN  /\ Len(v) >= from
        /\ \A i \in from..Len(v) : IsDigit(v[i])

\* A token the claim says is skipped: no '=', a value that is not entirely a
\* base-10 integer, or a key outside the recognized set.
IsSkippedToken(tok) ==
    LET parts == SplitN2(tok, "=")
    IN  \/ Len(parts) # 2
        \/ ~IsBase10Integer(parts[2])
        \/ parts[1] \notin RecognizedKeys

KeptToken(tok) == ~IsSkippedToken(tok)

\* C2: a token with no '=', with a value that is not entirely a base-10 integer,
\* or with an unrecognized key changes no field: the result is the result for
\* the string without those tokens.
C2_SkippedTokensIgnored ==
    parsePc = "done" =>
        usageResult =
            parseCrewAITokenUsage(Join(SelectSeq(Fields(tokenUsageStr), KeptToken), <<" ">>))

\* C9: every returned record has all four fields non-negative.
C9_FieldsNonNegative ==
    (parsePc = "done" /\ ~usageResult.isNil) =>
        /\ usageResult.TotalTokens >= 0
        /\ usageResult.InputTokens >= 0
        /\ usageResult.OutputTokens >= 0
        /\ usageResult.CacheReadInputTokens >= 0

-----------------------------------------------------------------------------
(* Attribute maps: map[string]interface{}.                                  *)

LowerLetters ==
    <<"a", "b", "c", "d", "e", "f", "g", "h", "i", "j", "k", "l", "m", "n", "o", "p", "q",
      "r", "s", "t", "u", "v", "w", "x", "y", "z">>

UpperLetters ==
    <<"A", "B", "C", "D", "E", "F", "G", "H", "I", "J", "K", "L", "M", "N", "O", "P", "Q",
      "R", "S", "T", "U", "V", "W", "X", "Y", "Z">>

ToLowerChar(c) ==
    IF \E i \in 1..26 : UpperLetters[i] = c
    THEN LowerLetters[CHOOSE i \in 1..26 : UpperLetters[i] = c]
    ELSE c

\* strings.ToLower
ToLower(s) == [i \in 1..Len(s) |-> ToLowerChar(s[i])]

\* strings.HasPrefix
HasPrefix(s, prefix) == Len(s) >= Len(prefix) /\ SubSeq(s, 1, Len(prefix)) = prefix

\* An interface{} value by its dynamic type.  A float64 is held in tenths, so
\* that int(maxIter) has a fraction to drop.
StringValue(s) == [type |-> "string", str |-> s, num |-> 0]

Float64Value(tenths) == [type |-> "float64", str |-> <<>>, num |-> tenths]

BoolValue == [type |-> "bool", str |-> <<>>, num |-> 1]

NilValue == [type |-> "nil", str |-> <<>>, num |-> 0]

NilMap == [isNil |-> TRUE, m |-> <<>>]

MakeMap(f) == [isNil |-> FALSE, m |-> f]

EmptyMap == MakeMap(<<>>)

\* _, ok := a[key]: reading a nil map finds nothing.
HasKey(a, key) == ~a.isNil /\ key \in DOMAIN a.m

\* val, ok := a[key].(string)
StringAt(a, key) ==
    IF HasKey(a, key) /\ a.m[key].type = "string"
    THEN [ok |-> TRUE, val |-> a.m[key].str]
    ELSE [ok |-> FALSE, val |-> <<>>]

\* val, ok := a[key].(float64)
Float64At(a, key) ==
    IF HasKey(a, key) /\ a.m[key].type = "float64"
    THEN [ok |-> TRUE, val |-> a.m[key].num]
    ELSE [ok |-> FALSE, val |-> 0]

KeyGenAiSystem == <<"g", "e", "n", "_", "a", "i", ".", "s", "y", "s", "t", "e", "m">>
CrewaiPrefix == <<"c", "r", "e", "w", "a", "i", ".">>
Crewai == <<"c", "r", "e", "w", "a", "i">>
KeyTasksOutput ==
    <<"c", "r", "e", "w", "a", "i", ".", "c", "r", "e", "w", ".", "t", "a", "s", "k", "s", "_",
      "o", "u", "t", "p", "u", "t">>
KeyResult ==
    <<"c", "r", "e", "w", "a", "i", ".", "c", "r", "e", "w", ".", "r", "e", "s", "u", "l", "t">>
KeyAgentRole ==
    <<"c", "r", "e", "w", "a", "i", ".", "a", "g", "e", "n", "t", ".", "r", "o", "l", "e">>
KeyCrewName == <<"c", "r", "e", "w", "a", "i", ".", "c", "r", "e", "w", ".", "n", "a", "m", "e">>
KeyAgentTools ==
    <<"c", "r", "e", "w", "a", "i", ".", "a", "g", "e", "n", "t", ".", "t", "o", "o", "l", "s">>
KeyAgentGoal ==
    <<"c", "r", "e", "w", "a", "i", ".", "a", "g", "e", "n", "t", ".", "g", "o", "a", "l">>
KeyAgentBackstory ==
    <<"c", "r", "e", "w", "a", "i", ".", "a", "g", "e", "n", "t", ".", "b", "a", "c", "k", "s",
      "t", "o", "r", "y">>
KeyAgentMaxIter ==
    <<"c", "r", "e", "w", "a", "i", ".", "a", "g", "e", "n", "t", ".", "m", "a", "x", "_", "i",
      "t", "e", "r">>
KeyTokenUsage ==
    <<"c", "r", "e", "w", "a", "i", ".", "c", "r", "e", "w", ".", "t", "o", "k", "e", "n", "_",
      "u", "s", "a", "g", "e">>

-----------------------------------------------------------------------------
(* IsCrewAISpan                                                             *)

\* if attrs == nil { return false }; the gen_ai.system test; else into the loop.
DetectCall ==
    /\ detPc = "call"
    /\ IF attrs.isNil
       THEN verdict' = FALSE /\ detPc' = "done" /\ UNCHANGED remaining
       ELSE LET val == StringAt(attrs, KeyGenAiSystem)
            IN  IF val.ok /\ ToLower(val.val) = Crewai
                THEN verdict' = TRUE /\ detPc' = "done" /\ UNCHANGED remaining
                ELSE detPc' = "range" /\ remaining' = DOMAIN attrs.m /\ UNCHANGED verdict
    /\ UNCHANGED <<attrs, parseVars, ioVars, populateVars, corsVars>>

\* One faulty iteration: the first key the loop produces decides.
DetectRangeFirstKeyDecides ==
    /\ detPc = "range"
    /\ \E key \in remaining :
        /\ verdict' = HasPrefix(key, CrewaiPrefix)
        /\ detPc' = "done"
        /\ UNCHANGED remaining
    /\ UNCHANGED <<attrs, parseVars, ioVars, populateVars, corsVars>>

\* One iteration of "for key := range attrs": Go produces the keys in no fixed
\* order, so the key is any one not yet produced.
DetectRange ==
    /\ detPc = "range"
    /\ \E key \in remaining :
        IF HasPrefix(key, CrewaiPrefix)
        THEN verdict' = TRUE /\ detPc' = "done" /\ UNCHANGED remaining
        ELSE remaining' = remaining \ {key} /\ UNCHANGED <<verdict, detPc>>
    /\ UNCHANGED <<attrs, parseVars, ioVars, populateVars, corsVars>>

\* The loop is over: return false.
DetectReturnFalse ==
    /\ detPc = "range"
    /\ remaining = {}
    /\ verdict' = FALSE
    /\ detPc' = "done"
    /\ UNCHANGED <<remaining, attrs, parseVars, ioVars, populateVars, corsVars>>

(* The maps IsCrewAISpan is called on.                                      *)

\* How many keys besides gen_ai.system an enumerated map holds at most.
MaxKeys == 3

KeyCrewaiNoDot == <<"c", "r", "e", "w", "a", "i">>
KeyCrewaiUpper == <<"C", "r", "e", "w", "A", "I", ".", "a", "g", "e", "n", "t">>
KeyHttpMethod == <<"h", "t", "t", "p", ".", "m", "e", "t", "h", "o", "d">>
KeyInnerCrewai == <<"x", ".", "c", "r", "e", "w", "a", "i", ".", "y">>
CrewaiMixed == <<"C", "r", "e", "w", "A", "I">>
CrewaiCaps == <<"C", "R", "E", "W", "A", "I">>
CrewaiSpace == <<"c", "r", "e", "w", "a", "i", " ">>
Openai == <<"o", "p", "e", "n", "a", "i">>
Analyst == <<"A", "n", "a", "l", "y", "s", "t">>

DetectKeys ==
    {KeyAgentRole, KeyCrewName, KeyCrewaiNoDot, KeyCrewaiUpper, KeyHttpMethod, KeyInnerCrewai}

SystemValues ==
    {StringValue(Crewai), StringValue(CrewaiMixed), StringValue(CrewaiCaps),
     StringValue(CrewaiSpace), StringValue(Openai), Float64Value(10), BoolValue}

DetectMaps ==
    {NilMap}
        \cup {MakeMap([k \in ks |-> StringValue(Analyst)]) :
                ks \in {s \in SUBSET DetectKeys : Cardinality(s) <= MaxKeys}}
        \cup {MakeMap([k \in ks \cup {KeyGenAiSystem} |->
                        IF k = KeyGenAiSystem THEN v ELSE StringValue(Analyst)]) :
                ks \in {s \in SUBSET DetectKeys : Cardinality(s) <= MaxKeys},
                v \in SystemValues}

DetectInit ==
    /\ attrs \in DetectMaps
    /\ detPc = "call"
    /\ remaining = {}
    /\ verdict = FALSE
    /\ ParseOff /\ IoOff /\ PopulateOff /\ CorsOff

DetectNext == DetectCall \/ DetectRange \/ DetectReturnFalse

SpecDetect == DetectInit /\ [][DetectNext]_vars

(* Claims about IsCrewAISpan, under SpecDetect.                             *)

\* The two characters are the same letter in either case, or the same character.
SameIgnoringCase(c, d) ==
    c = d \/ \E i \in 1..26 : {c, d} = {LowerLetters[i], UpperLetters[i]}

EqualIgnoringCase(a, b) ==
    Len(a) = Len(b) /\ \A i \in 1..Len(a) : SameIgnoringCase(a[i], b[i])

StartsWith(s, prefix) ==
    Len(s) >= Len(prefix) /\ \A i \in 1..Len(prefix) : s[i] = prefix[i]

IsCrewAI(a) ==
    /\ ~a.isNil
    /\ \/ /\ KeyGenAiSystem \in DOMAIN a.m
          /\ a.m[KeyGenAiSystem].type = "string"
          /\ EqualIgnoringCase(a.m[KeyGenAiSystem].str, Crewai)
       \/ \E key \in DOMAIN a.m : StartsWith(key, CrewaiPrefix)

-----------------------------------------------------------------------------
(* ExtractCrewAISpanInputOutput and ExtractCrewAIRootSpanInputOutput        *)

\* ExtractCrewAISpanInputOutput without the type test on tasks_output.
ExtractInputUntyped(a) ==
    IF a.isNil
    THEN [input |-> NilValue, output |-> NilValue]
    ELSE [input  |-> IF HasKey(a, KeyTasksOutput) THEN a.m[KeyTasksOutput] ELSE NilValue,
          output |-> IF StringAt(a, KeyResult).ok
                     THEN StringValue(StringAt(a, KeyResult).val) ELSE NilValue]

ExtractCrewAISpanInputOutput(a) ==
    IF a.isNil
    THEN [input |-> NilValue, output |-> NilValue]
    ELSE [input  |-> IF HasKey(a, KeyTasksOutput) /\ StringAt(a, KeyTasksOutput).ok
                     THEN StringValue(StringAt(a, KeyTasksOutput).val) ELSE NilValue,
          output |-> IF HasKey(a, KeyResult) /\ StringAt(a, KeyResult).ok
                     THEN StringValue(StringAt(a, KeyResult).val) ELSE NilValue]

\* A *Span: nil, or a span with its Attributes.
NilSpan == [isNil |-> TRUE, Attributes |-> NilMap]

SpanWith(a) == [isNil |-> FALSE, Attributes |-> a]

ExtractCrewAIRootSpanInputOutput(span) ==
    IF span.isNil \/ span.Attributes.isNil
    THEN [input |-> NilValue, output |-> NilValue]
    ELSE ExtractCrewAISpanInputOutput(span.Attributes)

\* A call of ExtractCrewAISpanInputOutput(attrs).
ExtractGeneric ==
    /\ ioPc = "call"
    /\ ioInput' = ExtractCrewAISpanInputOutput(attrs).input
    /\ ioOutput' = ExtractCrewAISpanInputOutput(attrs).output
    /\ ioPc' = "generic"
    /\ UNCHANGED <<rootSpan, attrs, parseVars, detectVars, populateVars, corsVars>>

\* A call of ExtractCrewAIRootSpanInputOutput(rootSpan).
ExtractRoot ==
    /\ ioPc = "call"
    /\ ioInput' = ExtractCrewAIRootSpanInputOutput(rootSpan).input
    /\ ioOutput' = ExtractCrewAIRootSpanInputOutput(rootSpan).output
    /\ ioPc' = "root"
    /\ UNCHANGED <<rootSpan, attrs, parseVars, detectVars, populateVars, corsVars>>

TasksText == <<"t", "a", "s", "k", " ", "o", "n", "e">>
ResultText == <<"d", "o", "n", "e">>

IoValues ==
    {StringValue(TasksText), StringValue(ResultText), StringValue(<<>>), Float64Value(420),
     BoolValue}

\* The maps over a set of keys whose values are drawn from vals.
MapsOver(keys, vals) == UNION {{MakeMap(f) : f \in [ks -> vals]} : ks \in SUBSET keys}

IoMaps ==
    {NilMap}
        \cup MapsOver({KeyTasksOutput, KeyResult}, IoValues)
        \cup {MakeMap(a.m @@ (KeyAgentRole :> StringValue(Analyst))) :
                a \in MapsOver({KeyTasksOutput, KeyResult}, IoValues)}

IoInit ==
    /\ attrs \in IoMaps
    /\ rootSpan \in {NilSpan, SpanWith(attrs)}
    /\ ioPc = "call"
    /\ ioInput = NilValue
    /\ ioOutput = NilValue
    /\ ParseOff /\ DetectOff /\ PopulateOff /\ CorsOff

IoNext == ExtractGeneric \/ ExtractRoot

SpecIO == IoInit /\ [][IoNext]_vars

(* Claims about the input/output extractors, under SpecIO.                  *)

\* The value at key when it is a string, and absent (nil) otherwise.
StringOrAbsent(a, key) ==
    IF ~a.isNil /\ key \in DOMAIN a.m /\ a.m[key].type = "string" THEN a.m[key] ELSE NilValue

-----------------------------------------------------------------------------
(* PopulateCrewAIAgentAttributes and its extractors                         *)

\* A []ToolDefinition: the nil slice, or a slice of elements.
NilSlice == [isNil |-> TRUE, elems |-> <<>>]

SliceOf(elems) == [isNil |-> FALSE, elems |-> elems]

ToolDefinition(name, description, parameters) ==
    [Name |-> name, Description |-> description, Parameters |-> parameters]

ToolNamesJSON ==
    <<"[", "\"", "s", "e", "a", "r", "c", "h", "\"", ",", "\"", "c", "a", "l", "c", "u", "l",
      "a", "t", "o", "r", "\"", "]">>
ToolObjectsJSON ==
    <<"[", "{", "\"", "n", "a", "m", "e", "\"", ":", "\"", "s", "e", "a", "r", "c", "h", "\"",
      ",", "\"", "d", "e", "s", "c", "r", "i", "p", "t", "i", "o", "n", "\"", ":", "\"", "w",
      "e", "b", "\"", "}", "]">>
NotJSON == <<"n", "o", "t", " ", "j", "s", "o", "n">>
EmptyArrayJSON == <<"[", "]">>
Search == <<"s", "e", "a", "r", "c", "h">>
Calculator == <<"c", "a", "l", "c", "u", "l", "a", "t", "o", "r">>
Web == <<"w", "e", "b">>

\* parseToolsJSON (process.go): a JSON array of names or of tool objects gives
\* the tools in order; text that is no such array gives an empty sequence.
parseToolsJSON(toolsJSON) ==
    CASE toolsJSON = ToolNamesJSON ->
            SliceOf(<<ToolDefinition(Search, <<>>, <<>>), ToolDefinition(Calculator, <<>>, <<>>)>>)
      [] toolsJSON = ToolObjectsJSON -> SliceOf(<<ToolDefinition(Search, Web, <<>>)>>)
      [] OTHER -> SliceOf(<<>>)

extractCrewAIAgentTools(a) ==
    LET toolsJSON == StringAt(a, KeyAgentTools)
    IN  IF ~toolsJSON.ok \/ toolsJSON.val = <<>>
        THEN NilSlice
        ELSE parseToolsJSON(toolsJSON.val)

RoleHeader == <<"r", "o", "l", "e", ":", " ", ">", "\n", " ", " ">>
GoalHeader == <<"g", "o", "a", "l", ":", " ", ">", "\n", " ", " ">>
BackstoryHeader == <<"b", "a", "c", "k", "s", "t", "o", "r", "y", ":", " ", ">", "\n", " ", " ">>

\* The trimmed string at key, "" when the key holds no string.
TrimmedAt(a, key) == IF StringAt(a, key).ok THEN TrimSpace(StringAt(a, key).val) ELSE <<>>

\* extractCrewAISystemPrompt with the goal written before the role.
extractCrewAISystemPromptGoalFirst(a) ==
    LET role      == TrimmedAt(a, KeyAgentRole)
        goal      == TrimmedAt(a, KeyAgentGoal)
        backstory == TrimmedAt(a, KeyAgentBackstory)
    IN  TrimSpace((IF goal # <<>> THEN GoalHeader \o goal \o <<"\n">> ELSE <<>>)
                    \o (IF role # <<>> THEN RoleHeader \o role \o <<"\n">> ELSE <<>>)
                    \o (IF backstory # <<>> THEN BackstoryHeader \o backstory ELSE <<>>))

extractCrewAISystemPrompt(a) ==
    LET role      == TrimmedAt(a, KeyAgentRole)
        goal      == TrimmedAt(a, KeyAgentGoal)
        backstory == TrimmedAt(a, KeyAgentBackstory)
    IN  IF role = <<>> /\ goal = <<>> /\ backstory = <<>>
        THEN <<>>
        ELSE TrimSpace((IF role # <<>> THEN RoleHeader \o role \o <<"\n">> ELSE <<>>)
                        \o (IF goal # <<>> THEN GoalHeader \o goal \o <<"\n">> ELSE <<>>)
                        \o (IF backstory # <<>> THEN BackstoryHeader \o backstory ELSE <<>>))

\* int(maxIter): the fraction is dropped, towards zero.
IntOfFloat64(tenths) == IF tenths >= 0 THEN tenths \div 10 ELSE 0 - ((0 - tenths) \div 10)

\* The interface{} in AmpAttributes.Data: nil, or an AgentData.
NilData ==
    [isNil |-> TRUE, Framework |-> <<>>, Name |-> <<>>, Tools |-> NilSlice,
     SystemPrompt |-> <<>>, MaxIter |-> 0, TokenUsage |-> NilUsage]

\* agentData taken over from the record instead of built anew.
AgentDataOfRecord(amp) == [amp.Data EXCEPT !.isNil = FALSE, !.Framework = Crewai]

\* agentData := AgentData{Framework: "crewai"}
NewAgentData(amp) == [NilData EXCEPT !.isNil = FALSE, !.Framework = Crewai]

\* The name: crewai.agent.role trimmed, else crewai.crew.name as it is.
WithName(agentData, a) ==
    IF StringAt(a, KeyAgentRole).ok
    THEN [agentData EXCEPT !.Name = TrimSpace(StringAt(a, KeyAgentRole).val)]
    ELSE IF StringAt(a, KeyCrewName).ok
         THEN [agentData EXCEPT !.Name = StringAt(a, KeyCrewName).val]
         ELSE agentData

WithMaxIter(agentData, a) ==
    IF Float64At(a, KeyAgentMaxIter).ok
    THEN [agentData EXCEPT !.MaxIter = IntOfFloat64(Float64At(a, KeyAgentMaxIter).val)]
    ELSE agentData

WithTokenUsage(agentData, a) ==
    IF StringAt(a, KeyTokenUsage).ok
    THEN [agentData EXCEPT !.TokenUsage = parseCrewAITokenUsage(StringAt(a, KeyTokenUsage).val)]
    ELSE agentData

\* The record *ampAttrs holds when PopulateCrewAIAgentAttributes(ampAttrs, a)
\* returns, amp being what it held at the call.
PopulateCrewAIAgentAttributes(amp, a) ==
    LET named    == WithName(NewAgentData(amp), a)
        tooled   == [named EXCEPT !.Tools = extractCrewAIAgentTools(a)]
        prompted == [tooled EXCEPT !.SystemPrompt = extractCrewAISystemPrompt(a)]
        iterated == WithMaxIter(prompted, a)
    IN  [amp EXCEPT !.Input = ExtractCrewAISpanInputOutput(a).input,
                    !.Output = ExtractCrewAISpanInputOutput(a).output,
                    !.Data = WithTokenUsage(iterated, a)]

\* How many times one record is populated at most.
MaxCalls == 2

\* A call of PopulateCrewAIAgentAttributes(&ampAttrs, attrs).
Populate ==
    /\ calls < MaxCalls
    /\ ampAttrs' = PopulateCrewAIAgentAttributes(ampAttrs, attrs)
    /\ calls' = calls + 1
    /\ UNCHANGED <<attrs, parseVars, detectVars, ioVars, corsVars>>
(* The maps and the records PopulateCrewAIAgentAttributes is called on.      *)

AnalystPadded == <<" ", "A", "n", "a", "l", "y", "s", "t", " ">>
Blank == <<" ", " ">>
Multiline == <<" ", "x", " ", "y", "\n">>
TwentyFive == <<"2", "5">>
NegativeUsageStr ==
    <<"t", "o", "t", "a", "l", "_", "t", "o", "k", "e", "n", "s", "=", "5", " ", "p", "r", "o",
      "m", "p", "t", "_", "t", "o", "k", "e", "n", "s", "=", "-", "3">>
OldText == <<"o", "l", "d">>

NameValues ==
    {StringValue(AnalystPadded), StringValue(Analyst), StringValue(Blank), StringValue(<<>>),
     Float64Value(10)}

PromptValues == {StringValue(Analyst), StringValue(Multiline), StringValue(Blank), Float64Value(10)}

ToolsValues ==
    {StringValue(ToolNamesJSON), StringValue(ToolObjectsJSON), StringValue(NotJSON),
     StringValue(EmptyArrayJSON), StringValue(<<>>), Float64Value(10)}

MaxIterValues ==
    {Float64Value(250), Float64Value(25), Float64Value(0 - 25), StringValue(TwentyFive), BoolValue}

TokenUsageValues ==
    {StringValue(ExampleUsageStr), StringValue(CachedOnlyStr), StringValue(NegativeUsageStr),
     StringValue(FooBar), StringValue(<<>>), Float64Value(10)}

\* A workflow span with every attribute set.
FullMap ==
    MakeMap((KeyGenAiSystem :> StringValue(Crewai))
                @@ (KeyTasksOutput :> StringValue(TasksText))
                @@ (KeyResult :> StringValue(ResultText))
                @@ (KeyAgentRole :> StringValue(AnalystPadded))
                @@ (KeyCrewName :> StringValue(Analyst))
                @@ (KeyAgentTools :> StringValue(ToolNamesJSON))
                @@ (KeyAgentGoal :> StringValue(Multiline))
                @@ (KeyAgentBackstory :> StringValue(Analyst))
                @@ (KeyAgentMaxIter :> Float64Value(250))
                @@ (KeyTokenUsage :> StringValue(ExampleUsageStr)))

PopulateMaps ==
    IoMaps
        \cup {FullMap}
        \cup MapsOver({KeyAgentRole, KeyCrewName}, NameValues)
        \cup MapsOver({KeyAgentRole, KeyAgentGoal, KeyAgentBackstory}, PromptValues)
        \cup MapsOver({KeyAgentTools}, ToolsValues)
        \cup MapsOver({KeyAgentMaxIter}, MaxIterValues)
        \cup MapsOver({KeyTokenUsage}, TokenUsageValues)

\* The zero AmpAttributes, and one an earlier span has filled.
ZeroAmp == [Input |-> NilValue, Output |-> NilValue, Data |-> NilData]

UsedAmp ==
    [Input  |-> StringValue(OldText),
     Output |-> Float64Value(10),
     Data   |-> [isNil |-> FALSE, Framework |-> Openai, Name |-> OldText,
                 Tools |-> SliceOf(<<ToolDefinition(OldText, OldText, OldText)>>),
                 SystemPrompt |-> OldText, MaxIter |-> 7,
                 TokenUsage |-> [ZeroUsage EXCEPT !.TotalTokens = 9, !.CacheReadInputTokens = 4]]]

PopulateInit ==
    /\ attrs \in PopulateMaps
    /\ ampAttrs \in {ZeroAmp, UsedAmp}
    /\ calls = 0
    /\ ParseOff /\ DetectOff /\ IoOff /\ CorsOff

PopulateNext == Populate

SpecPopulate == PopulateInit /\ [][PopulateNext]_vars

(* Claims about PopulateCrewAIAgentAttributes, under SpecPopulate.          *)

\* s without its leading and trailing white space.
Stripped(s) ==
    LET solid == {i \in 1..Len(s) : ~IsSpace(s[i])}
    IN  IF solid = {} THEN <<>>
        ELSE SubSeq(s, CHOOSE i \in solid : \A j \in solid : i <= j,
                       CHOOSE i \in solid : \A j \in solid : i >= j)

IsStringAt(a, key) == ~a.isNil /\ key \in DOMAIN a.m /\ a.m[key].type = "string"

FirstPresentName(a) ==
    IF IsStringAt(a, KeyAgentRole) THEN Stripped(a.m[KeyAgentRole].str)
    ELSE IF IsStringAt(a, KeyCrewName) THEN Stripped(a.m[KeyCrewName].str)
    ELSE <<>>

\* C4: after the call Data.Name is the trimmed string at crewai.agent.role when
\* that holds a string, else the trimmed string at crewai.crew.name when that
\* holds a string, else ""; it never has leading or trailing white space.
C4_NameTrimmed ==
    calls >= 1 =>
        /\ ampAttrs.Data.Name = FirstPresentName(attrs)
        /\ ampAttrs.Data.Name = Stripped(ampAttrs.Data.Name)

\* The block of one prompt field: nothing when the field is absent, no string or
\* blank, else "<field>: >\n  <trimmed value>\n".
PromptBlock(field, a, key) ==
    LET value == IF IsStringAt(a, key) THEN Stripped(a.m[key].str) ELSE <<>>
    IN  IF value = <<>> THEN <<>>
        ELSE field \o <<":", " ", ">", "\n", " ", " ">> \o value \o <<"\n">>

StrippedRight(s) ==
    LET solid == {i \in 1..Len(s) : ~IsSpace(s[i])}
    IN  IF solid = {} THEN <<>>
        ELSE SubSeq(s, 1, CHOOSE i \in solid : \A j \in solid : i >= j)

RoleOnlyPrompt ==
    <<"r", "o", "l", "e", ":", " ", ">", "\n", " ", " ", "A", "n", "a", "l", "y", "s", "t">>

\* C5: the system prompt is the blocks of role, goal and backstory in that
\* order, each "<field>: >\n  <value>\n" for a field that is a non-blank string
\* and nothing otherwise, with the trailing white space of the whole removed;
\* all three absent or blank give ""; role "Analyst" alone gives
\* "role: >\n  Analyst".
C5_SystemPrompt ==
    calls >= 1 =>
        /\ ampAttrs.Data.SystemPrompt =
                StrippedRight(PromptBlock(<<"r", "o", "l", "e">>, attrs, KeyAgentRole)
                    \o PromptBlock(<<"g", "o", "a", "l">>, attrs, KeyAgentGoal)
                    \o PromptBlock(<<"b", "a", "c", "k", "s", "t", "o", "r", "y">>, attrs,
                                   KeyAgentBackstory))
        /\ attrs = MakeMap(KeyAgentRole :> StringValue(Analyst)) =>
                ampAttrs.Data.SystemPrompt = RoleOnlyPrompt
        /\ (\A key \in {KeyAgentRole, KeyAgentGoal, KeyAgentBackstory} :
                ~IsStringAt(attrs, key) \/ Stripped(attrs.m[key].str) = <<>>) =>
                ampAttrs.Data.SystemPrompt = <<>>

\* A padded role, a goal that is no string and a backstory: two blocks.
C5_Witness ==
    /\ calls >= 1
    /\ IsStringAt(attrs, KeyAgentRole) /\ attrs.m[KeyAgentRole].str = Multiline
    /\ HasKey(attrs, KeyAgentGoal) /\ attrs.m[KeyAgentGoal].type = "float64"
    /\ IsStringAt(attrs, KeyAgentBackstory) /\ attrs.m[KeyAgentBackstory].str = Analyst
    /\ Len(ampAttrs.Data.SystemPrompt) > Len(RoleOnlyPrompt)

\* C6: after the call Data.Tools is an empty sequence, not nil, whenever
\* crewai.agent.tools is missing, is no string, is "" or does not parse.
C6_ToolsNeverNil ==
    (/\ calls >= 1
     /\ \/ ~IsStringAt(attrs, KeyAgentTools)
        \/ attrs.m[KeyAgentTools].str \in {<<>>, NotJSON}) =>
        /\ ~ampAttrs.Data.Tools.isNil
        /\ ampAttrs.Data.Tools.elems = <<>>

\* C8: a call leaves the attribute map as it was, and the record it leaves
\* depends on the map alone: it is the record a call on a fresh record gives,
\* whatever the target held before (another span's data, or the first call's).
C8_PureOfAttrs ==
    [][calls' = calls + 1 =>
        /\ attrs' = attrs
        /\ ampAttrs' = PopulateCrewAIAgentAttributes(ZeroAmp, attrs)]_vars

\* The second call on a record that held another span's data before the first.
C8_Witness ==
    /\ calls = 2
    /\ attrs = EmptyMap
    /\ ampAttrs.Data.Name = <<>>
    /\ ampAttrs.Input = NilValue

-----------------------------------------------------------------------------
(* The CORS middleware                                                      *)

\* strings.Split(s, sep) for a one-character sep: the parts between the
\* separators, empty parts included.
Split(s, sep) ==
    LET cuts == {i \in 1..Len(s) : s[i] = sep}
        n == Cardinality(cuts)
        CutAt(k) ==
            IF k = 0 THEN 0
            ELSE IF k = n + 1 THEN Len(s) + 1
            ELSE CHOOSE i \in cuts : Cardinality({x \in cuts : x < i}) = k - 1
    IN  [k \in 1..(n + 1) |-> SubSeq(s, CutAt(k - 1) + 1, CutAt(k) - 1)]

HeaderNames ==
    {"Vary", "Access-Control-Allow-Origin", "Access-Control-Allow-Credentials",
     "Access-Control-Allow-Methods", "Access-Control-Allow-Headers", "Access-Control-Max-Age"}

\* http.Header.Add and http.Header.Set
HeaderAdd(h, name, value) == [h EXCEPT ![name] = Append(@, value)]

HeaderSet(h, name, value) == [h EXCEPT ![name] = <<value>>]

Star == <<"*">>
True == <<"t", "r", "u", "e">>
VaryOrigin == <<"O", "r", "i", "g", "i", "n">>
VaryRequestMethod ==
    <<"A", "c", "c", "e", "s", "s", "-", "C", "o", "n", "t", "r", "o", "l", "-", "R", "e", "q",
      "u", "e", "s", "t", "-", "M", "e", "t", "h", "o", "d">>
VaryRequestHeaders ==
    <<"A", "c", "c", "e", "s", "s", "-", "C", "o", "n", "t", "r", "o", "l", "-", "R", "e", "q",
      "u", "e", "s", "t", "-", "H", "e", "a", "d", "e", "r", "s">>
AllowMethods ==
    <<"G", "E", "T", ",", " ", "P", "O", "S", "T", ",", " ", "P", "U", "T", ",", " ", "P", "A",
      "T", "C", "H", ",", " ", "D", "E", "L", "E", "T", "E", ",", " ", "O", "P", "T", "I", "O",
      "N", "S">>
AllowHeaders ==
    <<"A", "u", "t", "h", "o", "r", "i", "z", "a", "t", "i", "o", "n", ",", " ", "C", "o", "n",
      "t", "e", "n", "t", "-", "T", "y", "p", "e", ",", " ", "X", "-", "R", "e", "q", "u", "e",
      "s", "t", "e", "d", "-", "W", "i", "t", "h", ",", " ", "A", "c", "c", "e", "p", "t", ",",
      " ", "O", "r", "i", "g", "i", "n", ",", " ", "x", "-", "c", "o", "r", "r", "e", "l", "a",
      "t", "i", "o", "n", "-", "i", "d">>
MaxAge == <<"8", "6", "4", "0", "0">>
AcceptEncoding == <<"A", "c", "c", "e", "p", "t", "-", "E", "n", "c", "o", "d", "i", "n", "g">>

\* http.StatusNoContent
StatusNoContent == 204

RECURSIVE FirstMatch(_, _)
\* The loop over allowedOrigins, which breaks at the first entry that matches.
FirstMatch(allowedOrigins, origin) ==
    IF allowedOrigins = <<>> THEN <<>>
    ELSE LET allowed == TrimSpace(Head(allowedOrigins))
         IN  IF allowed = Star THEN Star
             ELSE IF origin = allowed THEN origin
             ELSE FirstMatch(Tail(allowedOrigins), origin)

\* w.Header().Add("Vary", ...), three times.
CorsSetVary ==
    /\ corsPc = "start"
    /\ respHeader' =
            HeaderAdd(HeaderAdd(HeaderAdd(respHeader, "Vary", VaryOrigin),
                                "Vary", VaryRequestMethod),
                      "Vary", VaryRequestHeaders)
    /\ corsPc' = "match"
    /\ UNCHANGED <<allowedOrigin, reqMethod, reqOrigin, respStatus, matchedOrigin, nextCalls>>
    /\ UNCHANGED <<attrs, parseVars, detectVars, ioVars, populateVars>>

\* "Check if origin is allowed"
CorsMatchOrigin ==
    /\ corsPc = "match"
    /\ matchedOrigin' =
            IF reqOrigin # <<>> THEN FirstMatch(Split(allowedOrigin, ","), reqOrigin) ELSE <<>>
    /\ corsPc' = "headers"
    /\ UNCHANGED <<allowedOrigin, reqMethod, reqOrigin, respHeader, respStatus, nextCalls>>
    /\ UNCHANGED <<attrs, parseVars, detectVars, ioVars, populateVars>>

\* The Access-Control-* headers, set when an origin matched.
CorsHeaders(h, matched) ==
    IF matched = <<>> THEN h
    ELSE LET origin == HeaderSet(h, "Access-Control-Allow-Origin", matched)
             creds  == IF matched # Star
                       THEN HeaderSet(origin, "Access-Control-Allow-Credentials", True)
                       ELSE origin
         IN  HeaderSet(HeaderSet(HeaderSet(creds, "Access-Control-Allow-Methods", AllowMethods),
                                 "Access-Control-Allow-Headers", AllowHeaders),
                       "Access-Control-Max-Age", MaxAge)

CorsSetHeaders ==
    /\ corsPc = "headers"
    /\ respHeader' = CorsHeaders(respHeader, matchedOrigin)
    /\ corsPc' = "method"
    /\ UNCHANGED <<allowedOrigin, reqMethod, reqOrigin, respStatus, matchedOrigin, nextCalls>>
    /\ UNCHANGED <<attrs, parseVars, detectVars, ioVars, populateVars>>

\* The preflight branch without its return: 204 is written and next runs too.
CorsPreflightFallsThrough ==
    /\ corsPc = "method"
    /\ reqMethod = "OPTIONS"
    /\ respStatus' = StatusNoContent
    /\ nextCalls' = nextCalls + 1
    /\ corsPc' = "done"
    /\ UNCHANGED <<allowedOrigin, reqMethod, reqOrigin, respHeader, matchedOrigin>>
    /\ UNCHANGED <<attrs, parseVars, detectVars, ioVars, populateVars>>

\* "Handle preflight request": write 204 and return.
CorsPreflight ==
    /\ corsPc = "method"
    /\ reqMethod = "OPTIONS"
    /\ respStatus' = StatusNoContent
    /\ corsPc' = "done"
    /\ UNCHANGED <<allowedOrigin, reqMethod, reqOrigin, respHeader, matchedOrigin, nextCalls>>
    /\ UNCHANGED <<attrs, parseVars, detectVars, ioVars, populateVars>>

\* next.ServeHTTP(w, r): the wrapped handler runs and writes a status of its own.
CorsServeNext ==
    /\ corsPc = "method"
    /\ reqMethod # "OPTIONS"
    /\ nextCalls' = nextCalls + 1
    /\ respStatus' \in {200, 404}
    /\ corsPc' = "done"
    /\ UNCHANGED <<allowedOrigin, reqMethod, reqOrigin, respHeader, matchedOrigin>>
    /\ UNCHANGED <<attrs, parseVars, detectVars, ioVars, populateVars>>

(* The requests and the configurations the middleware runs on.              *)

\* How many entries an enumerated allowed-origin list holds at most.
MaxAllowed == 2

OriginA == <<"h", "t", "t", "p", ":", "/", "/", "a">>
OriginB == <<"h", "t", "t", "p", ":", "/", "/", "b">>
OriginC == <<"h", "t", "t", "p", ":", "/", "/", "c">>
OriginASpaced == <<" ", "h", "t", "t", "p", ":", "/", "/", "a", " ">>

AllowedEntries == {OriginA, OriginB, OriginASpaced, Star, <<>>}

AllowedLists ==
    {Join(es, <<",">>) : es \in UNION {[1..n -> AllowedEntries] : n \in 0..MaxAllowed}}

NoHeaders == [name \in HeaderNames |-> <<>>]

CorsInit ==
    /\ allowedOrigin \in AllowedLists
    /\ reqMethod \in {"GET", "POST", "OPTIONS"}
    /\ reqOrigin \in {<<>>, OriginA, OriginB, OriginC}
    /\ corsPc = "start"
    /\ respHeader \in {NoHeaders, HeaderAdd(NoHeaders, "Vary", AcceptEncoding)}
    /\ respStatus = 0
    /\ matchedOrigin = <<>>
    /\ nextCalls = 0
    /\ ParseOff /\ AttrsOff /\ DetectOff /\ IoOff /\ PopulateOff

CorsNext ==
    CorsSetVary \/ CorsMatchOrigin \/ CorsSetHeaders \/ CorsPreflight \/ CorsServeNext

SpecCORS == CorsInit /\ [][CorsNext]_vars

(* Claims about the CORS middleware, under SpecCORS.                        *)

\* The request's Origin is "*"-allowed or is one of the list's trimmed entries.
OriginAllowed ==
    /\ reqOrigin # <<>>
    /\ \E k \in 1..Len(Split(allowedOrigin, ",")) :
            Stripped(Split(allowedOrigin, ",")[k]) \in {Star, reqOrigin}

\* The three Vary values are the last three of the header.
VaryAdded ==
    /\ Len(respHeader["Vary"]) >= 3
    /\ SubSeq(respHeader["Vary"], Len(respHeader["Vary"]) - 2, Len(respHeader["Vary"]))
            = <<VaryOrigin, VaryRequestMethod, VaryRequestHeaders>>

\* C10: an OPTIONS request ends with status 204 and next never called, matched
\* origin or not; any other request calls next exactly once, and only after
\* the Vary headers and, on a match, the Access-Control-* headers are set.
C10_PreflightShortCircuit ==
    /\ reqMethod = "OPTIONS" =>
        /\ nextCalls = 0
        /\ corsPc = "done" => respStatus = StatusNoContent
    /\ reqMethod # "OPTIONS" =>
        /\ nextCalls <= 1
        /\ corsPc = "done" => nextCalls = 1
        /\ nextCalls = 1 =>
            /\ VaryAdded
            /\ OriginAllowed =>
                /\ Len(respHeader["Access-Control-Allow-Origin"]) = 1
                /\ respHeader["Access-Control-Allow-Origin"][1] \in {Star, reqOrigin}
                /\ respHeader["Access-Control-Allow-Methods"] = <<AllowMethods>>
                /\ respHeader["Access-Control-Allow-Headers"] = <<AllowHeaders>>
                /\ respHeader["Access-Control-Max-Age"] = <<MaxAge>>

\* A preflight from an origin the list does not hold.
C10_Witness ==
    /\ corsPc = "done"
    /\ reqMethod = "OPTIONS"
    /\ reqOrigin = OriginC
    /\ ~OriginAllowed
    /\ allowedOrigin # <<>>
    /\ respStatus = StatusNoContent
    /\ nextCalls = 0

=============================================================================
